---------------------------- MODULE Spec2Model ----------------------------
(***************************************************************************)
(* Family Health Keeper backend (backend_new/app): the settings loader     *)
(* (core/config.py), the AI proxy endpoints (api/v1/endpoints/ai_proxy.py) *)
(* and the application bootstrap with its liveness endpoint (main.py).     *)
(*                                                                         *)
(* Python strings are sequences of one-token strings, so that split,       *)
(* strip, formatting and JSON parsing are computed and not assumed.        *)
(***************************************************************************)
EXTENDS Integers, Sequences, FiniteSets, TLC

(***************************************************************************)
(* Bounds of the model.                                                    *)
(***************************************************************************)
MaxStrLen == 3
MaxListLen == 2
MaxCalls == 3
MaxBodyLen == 4
NumRequests == 2

(***************************************************************************)
(* Generic helpers.                                                        *)
(***************************************************************************)
SeqsUpTo(S, n) == UNION {[1..k -> S] : k \in 0..n}

(***************************************************************************)
(* Python values reaching the BACKEND_CORS_ORIGINS pre-validator: a str,   *)
(* a list of str, or a value of another type.                              *)
(***************************************************************************)
PyStr(s) == [type |-> "str", chars |-> s, items |-> <<>>]
PyList(l) == [type |-> "list", chars |-> <<>>, items |-> l]
PyOther(t) == [type |-> t, chars |-> <<>>, items |-> <<>>]

Whitespace == {" "}

\* str.startswith(p) for a one-character prefix p
StartsWith(s, p) == Len(s) >= 1 /\ s[1] = p

\* str.lstrip(): drop leading whitespace
RECURSIVE LStrip(_)
LStrip(s) ==
    IF s # <<>> /\ Head(s) \in Whitespace THEN LStrip(Tail(s)) ELSE s

\* str.rstrip(): drop trailing whitespace
RECURSIVE RStrip(_)
RStrip(s) ==
    IF s # <<>> /\ s[Len(s)] \in Whitespace
    THEN RStrip(SubSeq(s, 1, Len(s) - 1))
    ELSE s

\* mutant of Strip: only the leading whitespace goes
StripLeadingOnly(s) == LStrip(s)

\* str.strip()
Strip(s) == RStrip(LStrip(s))

\* str.split(sep): scan left to right, cur is the item being accumulated
RECURSIVE SplitFrom(_, _, _)
SplitFrom(s, sep, cur) ==
    IF s = <<>> THEN <<cur>>
    ELSE IF Head(s) = sep THEN <<cur>> \o SplitFrom(Tail(s), sep, <<>>)
    ELSE SplitFrom(Tail(s), sep, Append(cur, Head(s)))

Split(s, sep) == SplitFrom(s, sep, <<>>)

\* [i.strip() for i in items]
StripEach(items) == [k \in 1..Len(items) |-> Strip(items[k])]

\* mutant of assemble_cors_origins: the final raise is missing
assemble_cors_origins_no_raise(v) ==
    IF v.type = "str" /\ ~StartsWith(v.chars, "[")
    THEN [raised |-> FALSE, value |-> PyList(StripEach(Split(v.chars, ",")))]
    ELSE [raised |-> FALSE, value |-> v]

\* Settings.assemble_cors_origins(cls, v): the value returned, or ValueError(v)
assemble_cors_origins(v) ==
    IF v.type = "str" /\ ~StartsWith(v.chars, "[")
    THEN [raised |-> FALSE, value |-> PyList(StripEach(Split(v.chars, ",")))]
    ELSE IF v.type \in {"list", "str"}
    THEN [raised |-> FALSE, value |-> v]
    ELSE [raised |-> TRUE, value |-> v]


(***************************************************************************)
(* State.                                                                  *)
(*   cors_in, cors_out  the value handed to the BACKEND_CORS_ORIGINS       *)
(*                      pre-validator and what the validator did with it   *)
(*   environ            os.environ (merged with .env): name -> value       *)
(*   cache              the lru_cache of get_settings: <<>> or <<object>>  *)
(*   constructed        every Settings object constructed so far           *)
(*   returns            what each get_settings() call returned             *)
(*   app_state          position of the process: import, startup, serving  *)
(*   req                the generate-insights requests                     *)
(*   health             the GET /health probe                              *)
(*   framework          how the installed framework release prints an      *)
(*                      HTTPException; fixed for the life of the process   *)
(***************************************************************************)
VARIABLES cors_in, cors_out, environ, cache, constructed, returns,
          app_state, req, health, framework

vars == <<cors_in, cors_out, environ, cache, constructed, returns,
          app_state, req, health, framework>>

config_vars == <<environ, cache, constructed, returns>>
cors_vars == <<cors_in, cors_out>>

(***************************************************************************)
(* The validator as a pure function: inputs of every shape.                *)
(***************************************************************************)
CorsChars == {"a", "b", ",", " ", "["}
CorsListItems == {<<"a">>, <<" ", "b">>, <<"[">>}
OtherTypes == {"int", "NoneType", "dict"}

CorsInputs ==
    {PyStr(s) : s \in SeqsUpTo(CorsChars, MaxStrLen)}
        \cup {PyList(l) : l \in SeqsUpTo(CorsListItems, MaxListLen)}
        \cup {PyOther(t) : t \in OtherTypes}

NotRun == [raised |-> FALSE, value |-> PyOther("not-run")]

\* pydantic calls the pre-validator with the raw value of the field
Validate ==
    /\ cors_out = NotRun
    /\ cors_out' = assemble_cors_origins(cors_in)
    /\ UNCHANGED <<cors_in, config_vars, app_state, req, health, framework>>


(***************************************************************************)
(* core/config.py: class Settings and get_settings.                        *)
(***************************************************************************)
DefaultVersion == <<"1.0.0">>
DefaultAllowedHosts == <<"localhost", "127.0.0.1">>

NoSettings ==
    [VERSION |-> <<>>, DATABASE_URL |-> <<>>, SECRET_KEY |-> <<>>,
     BACKEND_CORS_ORIGINS |-> <<>>, ALLOWED_HOSTS |-> <<>>]

\* Settings(): fields are read from the environment, declared defaults fill
\* the rest, DATABASE_URL and SECRET_KEY have no default and are required
SettingsNew(env) ==
    IF "DATABASE_URL" \notin DOMAIN env \/ "SECRET_KEY" \notin DOMAIN env
    THEN [raised |-> TRUE, value |-> NoSettings]
    ELSE [raised |-> FALSE,
          value |-> [VERSION |-> IF "VERSION" \in DOMAIN env
                                 THEN env["VERSION"] ELSE DefaultVersion,
                     DATABASE_URL |-> env["DATABASE_URL"],
                     SECRET_KEY |-> env["SECRET_KEY"],
                     BACKEND_CORS_ORIGINS |-> <<>>,
                     ALLOWED_HOSTS |-> DefaultAllowedHosts]]

\* mutant of lru_cache_call: no cache, the function body runs on every call
lru_cache_call_uncached(c, env) ==
    LET r == SettingsNew(env)
    IN  [ret |-> r,
         cache |-> IF r.raised THEN c ELSE <<r.value>>,
         made |-> IF r.raised THEN <<>> ELSE <<r.value>>]

\* @lru_cache() around a function without arguments: a hit returns the cached
\* object; a miss runs the function body and stores its result unless it
\* raised.  ret is what the call returns, cache the cache afterwards, made
\* the objects the function body constructed during the call.
lru_cache_call(c, env) ==
    IF c # <<>>
    THEN [ret |-> [raised |-> FALSE, value |-> c[1]], cache |-> c,
          made |-> <<>>]
    ELSE LET r == SettingsNew(env)
         IN  [ret |-> r,
              cache |-> IF r.raised THEN c ELSE <<r.value>>,
              made |-> IF r.raised THEN <<>> ELSE <<r.value>>]

\* the module-level object `settings` of config.py
settings == cache[1]

\* one call of get_settings(); the first one is `settings = get_settings()`,
\* run when app.core.config is imported: if it raises the import fails
get_settings ==
    /\ app_state \in {"importing", "starting", "running"}
    /\ (app_state = "importing") = (returns = <<>>)
    /\ Len(returns) < MaxCalls
    /\ LET res == lru_cache_call(cache, environ)
       IN  /\ returns' = Append(returns, res.ret)
           /\ cache' = res.cache
           /\ constructed' = constructed \o res.made
           /\ app_state' = IF app_state # "importing" THEN app_state
                           ELSE IF res.ret.raised THEN "import_failed"
                           ELSE "starting"
    /\ UNCHANGED <<cors_vars, environ, req, health, framework>>


(***************************************************************************)
(* JSON.  A text is a sequence of tokens; "k:" is the member name "k" with *)
(* its colon.  A value is <<"num", <<>>>> (the number 1) or                *)
(* <<"obj", members>>, members a sequence of <<name, value>> in insertion  *)
(* order, as in a Python dict.                                             *)
(***************************************************************************)
JsonChars == {"{", "}", "k:", "1", ",", " "}
JNum == <<"num", <<>>>>
JObj(members) == <<"obj", members>>
JFail == [ok |-> FALSE, value |-> <<"none", <<>>>>, rest |-> <<>>]

RECURSIVE SkipWs(_)
SkipWs(s) == IF s # <<>> /\ Head(s) = " " THEN SkipWs(Tail(s)) ELSE s

\* dict[name] = value: a repeated name keeps its place and takes the new value
SetMember(members, name, value) ==
    IF \E i \in 1..Len(members) : members[i][1] = name
    THEN [i \in 1..Len(members) |->
             IF members[i][1] = name THEN <<name, value>> ELSE members[i]]
    ELSE Append(members, <<name, value>>)

RECURSIVE ParseValue(_), ParseMember(_, _)
\* json decoder, one value at the head of s: [ok, value, rest]
ParseValue(s0) ==
    LET s == SkipWs(s0)
    IN  IF s = <<>> THEN JFail
        ELSE IF Head(s) = "1"
        THEN [ok |-> TRUE, value |-> JNum, rest |-> Tail(s)]
        ELSE IF Head(s) = "{"
        THEN LET t == SkipWs(Tail(s))
             IN  IF t # <<>> /\ Head(t) = "}"
                 THEN [ok |-> TRUE, value |-> JObj(<<>>), rest |-> Tail(t)]
                 ELSE ParseMember(t, <<>>)
        ELSE JFail

\* the members of an object from the first name on, members holds those read
ParseMember(s, members) ==
    IF s = <<>> \/ Head(s) # "k:" THEN JFail
    ELSE LET v == ParseValue(Tail(s))
         IN  IF ~v.ok THEN JFail
             ELSE LET r == SkipWs(v.rest)
                      ms == SetMember(members, "k", v.value)
                  IN  IF r = <<>> THEN JFail
                      ELSE IF Head(r) = "}"
                      THEN [ok |-> TRUE, value |-> JObj(ms), rest |-> Tail(r)]
                      ELSE IF Head(r) = ","
                      THEN ParseMember(SkipWs(Tail(r)), ms)
                      ELSE JFail

\* response.json(): the whole text is one JSON value, else JSONDecodeError
JsonLoads(text) ==
    LET v == ParseValue(text)
    IN  IF v.ok /\ SkipWs(v.rest) = <<>>
        THEN [ok |-> TRUE, value |-> v.value]
        ELSE [ok |-> FALSE, value |-> JFail.value]

RECURSIVE JsonDumps(_), DumpMembers(_)
\* the framework's rendering of the returned content: compact separators
JsonDumps(v) ==
    IF v[1] = "num" THEN <<"1">>
    ELSE <<"{">> \o DumpMembers(v[2]) \o <<"}">>

DumpMembers(ms) ==
    IF ms = <<>> THEN <<>>
    ELSE <<"k:">> \o JsonDumps(ms[1][2])
             \o (IF Len(ms) > 1 THEN <<",">> ELSE <<>>)
             \o DumpMembers(Tail(ms))

RECURSIVE PyRepr(_), ReprMembers(_)
\* f"{patient_data}": the repr of a dict
PyRepr(v) ==
    IF v[1] = "num" THEN <<"1">>
    ELSE <<"{">> \o ReprMembers(v[2]) \o <<"}">>

ReprMembers(ms) ==
    IF ms = <<>> THEN <<>>
    ELSE <<"'k': ">> \o PyRepr(ms[1][2])
             \o (IF Len(ms) > 1 THEN <<", ">> ELSE <<>>)
             \o ReprMembers(Tail(ms))


(***************************************************************************)
(* api/v1/endpoints/ai_proxy.py: generate_health_insights.                 *)
(***************************************************************************)
Requests == 1..NumRequests

GeminiUrl ==
    "https://generativelanguage.googleapis.com/v1beta/models/gemini-2.5-flash:generateContent"
FailedDetail == <<"Failed to generate insights">>

\* os.getenv(name): the value, or None when the name is not set
Getenv(env, name) ==
    IF name \in DOMAIN env
    THEN [present |-> TRUE, value |-> env[name]]
    ELSE [present |-> FALSE, value |-> <<>>]

\* "{x}" inside an f-string, x a str or None
FStr(x) == IF x.present THEN x.value ELSE <<"None">>

\* the outbound request built for client.post(url, headers=..., json=...)
OutboundRequest(env, patient_data) ==
    [url |-> GeminiUrl,
     authorization |-> <<"Bearer ">> \o FStr(Getenv(env, "GEMINI_API_KEY")),
     text |-> <<"Generate health insights for patient: ">>
                  \o PyRepr(patient_data)]

\* exceptions: HTTPException carries status_code and detail (in message),
\* any other exception its message
Exc(type, message) == [type |-> type, status_code |-> 0, message |-> message]
HTTPException(status_code, detail) ==
    [type |-> "HTTPException", status_code |-> status_code, message |-> detail]
NoExc == Exc("", <<>>)

\* what client.post came back with: a response, an exception, or nothing yet
NoOutcome == [kind |-> "none", status |-> 0, body |-> <<>>, exc |-> NoExc]
Answered(status, body) ==
    [kind |-> "response", status |-> status, body |-> body, exc |-> NoExc]
Raised(e) == [kind |-> "exception", status |-> 0, body |-> <<>>, exc |-> e]

JSONDecodeError == Exc("JSONDecodeError", <<"Expecting value">>)

\* a header value with a line break is refused by the HTTP/1.1 client when
\* it is about to write the request: nothing is sent
IllegalHeaderChars == {"\n"}
IsLegalHeaderValue(v) == \A i \in 1..Len(v) : v[i] \notin IllegalHeaderChars

\* the LocalProtocolError client.post raises then: its text quotes the value
LocalProtocolError(request) ==
    Exc("LocalProtocolError",
        <<"Illegal header value ">> \o request.authorization)

\* mutant of TryBlock: the upstream value is wrapped in a member of a new
\* object instead of being returned as it is
TryBlockWrapping(outcome) ==
    IF outcome.kind = "exception"
    THEN [raised |-> TRUE, exc |-> outcome.exc, value |-> JFail.value]
    ELSE IF outcome.status = 200
    THEN LET j == JsonLoads(outcome.body)
         IN  IF j.ok
             THEN [raised |-> FALSE, exc |-> NoExc,
                   value |-> JObj(<<<<"k", j.value>>>>)]
             ELSE [raised |-> TRUE, exc |-> JSONDecodeError,
                   value |-> JFail.value]
    ELSE [raised |-> TRUE,
          exc |-> HTTPException(outcome.status, FailedDetail),
          value |-> JFail.value]

\* the body of the try block, after client.post came back with `outcome`:
\* a returned value or a raised exception
TryBlock(outcome) ==
    IF outcome.kind = "exception"
    THEN [raised |-> TRUE, exc |-> outcome.exc, value |-> JFail.value]
    ELSE IF outcome.status = 200
    THEN LET j == JsonLoads(outcome.body)
         IN  IF j.ok
             THEN [raised |-> FALSE, exc |-> NoExc, value |-> j.value]
             ELSE [raised |-> TRUE, exc |-> JSONDecodeError,
                   value |-> JFail.value]
    ELSE [raised |-> TRUE,
          exc |-> HTTPException(outcome.status, FailedDetail),
          value |-> JFail.value]

FrameworkReleases == {"str-empty", "str-status-detail"}

\* str(e).  For an HTTPException the text depends on the framework release:
\* "" (no positional arguments) or "<status_code>: <detail>"
StrOfException(e) ==
    IF e.type = "HTTPException"
    THEN IF framework = "str-empty" THEN <<>>
         ELSE <<ToString(e.status_code), ": ">> \o e.message
    ELSE e.message

\* responses as the caller sees them
JSONResponse(status_code, value) ==
    [status_code |-> status_code, kind |-> "json", body |-> JsonDumps(value)]
ErrorResponse(status_code, detail) ==
    [status_code |-> status_code, kind |-> "detail", body |-> detail]

\* mutant of HandlerResponse: the except clause answers with a fixed text
HandlerResponseFixedDetail(outcome) ==
    LET t == TryBlock(outcome)
    IN  IF t.raised
        THEN ErrorResponse(500, <<"Internal Server Error">>)
        ELSE JSONResponse(200, t.value)

\* try/except of generate_health_insights: every exception of the try block
\* (an HTTPException raised in it included) reaches `except Exception`
HandlerResponse(outcome) ==
    LET t == TryBlock(outcome)
    IN  IF t.raised
        THEN ErrorResponse(500, StrOfException(t.exc))
        ELSE JSONResponse(200, t.value)

IdleRequest ==
    [pc |-> "idle", data |-> JObj(<<>>), hangs |-> FALSE, posts |-> <<>>,
     outcome |-> NoOutcome, responses |-> <<>>]

\* the handler is invoked and runs up to the await of client.post: it reads
\* the key, builds the request and posts it.  `hangs` is the network's
\* choice: an outbound call that never completes.
generate_health_insights_call(r, patient_data, hangs) ==
    /\ app_state = "running"
    /\ req[r].pc = "idle"
    /\ req' = [req EXCEPT ![r] =
                  [pc |-> "awaiting", data |-> patient_data, hangs |-> hangs,
                   posts |-> <<OutboundRequest(environ, patient_data)>>,
                   outcome |-> NoOutcome, responses |-> <<>>]]
    /\ UNCHANGED <<cors_vars, config_vars, app_state, health, framework>>

\* the connection is made and the client refuses to write the request of r
ClientRefuses(r) ==
    /\ req[r].pc = "awaiting"
    /\ ~req[r].hangs
    /\ ~IsLegalHeaderValue(req[r].posts[1].authorization)
    /\ req' = [req EXCEPT ![r].pc = "replied",
                          ![r].outcome =
                              Raised(LocalProtocolError(req[r].posts[1]))]
    /\ UNCHANGED <<cors_vars, config_vars, app_state, health, framework>>

\* the upstream service answers the outbound request of r with one of the
\* given <<status, body>> replies
UpstreamReply(r, replies) ==
    /\ req[r].pc = "awaiting"
    /\ ~req[r].hangs
    /\ IsLegalHeaderValue(req[r].posts[1].authorization)
    /\ \E a \in replies :
          req' = [req EXCEPT ![r].pc = "replied",
                             ![r].outcome = Answered(a[1], a[2])]
    /\ UNCHANGED <<cors_vars, config_vars, app_state, health, framework>>

\* the outbound call of r fails in the network: client.post raises e
NetworkError(r, e) ==
    /\ req[r].pc = "awaiting"
    /\ ~req[r].hangs
    /\ req' = [req EXCEPT ![r].pc = "replied", ![r].outcome = Raised(e)]
    /\ UNCHANGED <<cors_vars, config_vars, app_state, health, framework>>

\* mutant of generate_health_insights_resume: a failed call is posted again
generate_health_insights_resume_retrying(r) ==
    /\ req[r].pc = "replied"
    /\ req' = IF TryBlock(req[r].outcome).raised /\ Len(req[r].posts) < 2
              THEN [req EXCEPT ![r].pc = "awaiting",
                               ![r].outcome = NoOutcome,
                               ![r].posts = Append(@, req[r].posts[1])]
              ELSE [req EXCEPT ![r].pc = "done",
                               ![r].responses =
                                   Append(@, HandlerResponse(req[r].outcome))]
    /\ UNCHANGED <<cors_vars, config_vars, app_state, health, framework>>

\* mutant of generate_health_insights_resume: a handler is resumed only when
\* no other request is waiting for its outbound call
generate_health_insights_resume_serial(r) ==
    /\ req[r].pc = "replied"
    /\ \A q \in Requests \ {r} : req[q].pc # "awaiting"
    /\ req' = [req EXCEPT ![r].pc = "done",
                          ![r].responses =
                              Append(@, HandlerResponse(req[r].outcome))]
    /\ UNCHANGED <<cors_vars, config_vars, app_state, health, framework>>

\* client.post has come back: the handler of r is resumed and runs to its end
generate_health_insights_resume(r) ==
    /\ req[r].pc = "replied"
    /\ req' = [req EXCEPT ![r].pc = "done",
                          ![r].responses =
                              Append(@, HandlerResponse(req[r].outcome))]
    /\ UNCHANGED <<cors_vars, config_vars, app_state, health, framework>>


(***************************************************************************)
(* main.py: lifespan, the middleware in front of every route, health_check.*)
(***************************************************************************)
\* lifespan: init_db() is awaited before the application accepts traffic
StartupOk ==
    /\ app_state = "starting"
    /\ app_state' = "running"
    /\ UNCHANGED <<cors_vars, config_vars, req, health, framework>>

\* init_db() raises: startup fails and the process serves nothing
StartupFail ==
    /\ app_state = "starting"
    /\ app_state' = "failed"
    /\ UNCHANGED <<cors_vars, config_vars, req, health, framework>>

HealthBody(status, timestamp, version, text) ==
    [status |-> status, timestamp |-> timestamp, version |-> version,
     text |-> text]
NoHealthResponse == [status_code |-> 0, body |-> HealthBody("", "", <<>>, "")]

\* mutant of health_check: the version is written out, not read from settings
health_check_fixed_version ==
    [status_code |-> 200,
     body |-> HealthBody("OK", "2024-01-01T00:00:00Z", DefaultVersion, "")]

\* health_check(): the route handler of GET /health
health_check ==
    [status_code |-> 200,
     body |-> HealthBody("OK", "2024-01-01T00:00:00Z", settings.VERSION, "")]

\* TrustedHostMiddleware(allowed_hosts=settings.ALLOWED_HOSTS): a request
\* whose Host is not allowed is answered 400 and goes no further
TrustedHostMiddleware(host, inner) ==
    IF \E i \in 1..Len(settings.ALLOWED_HOSTS) :
           settings.ALLOWED_HOSTS[i] \in {"*", host}
    THEN inner
    ELSE [status_code |-> 400,
          body |-> HealthBody("", "", <<>>, "Invalid host header")]

\* app.middleware.cors.CORSMiddleware, the outermost layer: a GET passes
CustomCORSMiddleware(inner) == inner

\* the standard CORSMiddleware adds headers to a GET and changes neither
\* status nor body
CORSMiddleware(inner) == inner

\* the application as GET /health sees it, outermost middleware first
AppGetHealth(host) ==
    CustomCORSMiddleware(
        TrustedHostMiddleware(host, CORSMiddleware(health_check)))

IdleHealth == [pc |-> "idle", host |-> "", response |-> NoHealthResponse]

\* a client sends GET /health with the given Host header
HealthRequest(host) ==
    /\ app_state = "running"
    /\ health.pc # "pending"
    /\ health' = [pc |-> "pending", host |-> host,
                  response |-> NoHealthResponse]
    /\ UNCHANGED <<cors_vars, config_vars, app_state, req, framework>>

\* the event loop serves the pending GET /health
HealthRespond ==
    /\ health.pc = "pending"
    /\ health' = [health EXCEPT !.pc = "done",
                                !.response = AppGetHealth(health.host)]
    /\ UNCHANGED <<cors_vars, config_vars, app_state, req, framework>>

\* the environment of the process changes: os.environ[name] = value
SetEnv(name, value) ==
    /\ app_state \in {"importing", "starting", "running"}
    /\ IF name \in DOMAIN environ THEN environ[name] # value ELSE TRUE
    /\ environ' = [n \in DOMAIN environ \cup {name} |->
                      IF n = name THEN value ELSE environ[n]]
    /\ UNCHANGED <<cors_vars, cache, constructed, returns, app_state, req,
                   health, framework>>

(***************************************************************************)
(* Inputs.                                                                 *)
(***************************************************************************)
Statuses == {200, 201, 404, 500}
Bodies == SeqsUpTo(JsonChars, MaxBodyLen)
SampleReplies == {<<200, <<"{", " ", "}">>>>, <<404, <<"{", "}">>>>}
SamplePatientData == {JObj(<<<<"k", JNum>>>>)}
PatientData == {JObj(<<>>), JObj(<<<<"k", JNum>>>>)}
ApiKeys == {<<"k1">>, <<"k1", "\n">>, <<"k2", "\n">>}
Versions == {<<"2.0.0">>, <<"3.0.0">>}
Hosts == {"localhost", "evil.example"}
ConnectError == Exc("ConnectError", <<"All connection attempts failed">>)
NetworkErrors == {ConnectError, Exc("ReadTimeout", <<>>)}

\* environments: every assignment of values to a subset of the names
Envs(names, values) ==
    UNION {[D -> values] : D \in SUBSET names}

RequiredEnv == [n \in {"DATABASE_URL", "SECRET_KEY"} |-> <<"x">>]

\* f extended and overridden by g
Merge(f, g) ==
    [n \in DOMAIN f \cup DOMAIN g |-> IF n \in DOMAIN g THEN g[n] ELSE f[n]]

(***************************************************************************)
(* The validator alone: SpecCors.                                          *)
(***************************************************************************)
ServerOff ==
    /\ framework = "str-empty"
    /\ environ = RequiredEnv
    /\ cache = <<>>
    /\ constructed = <<>>
    /\ returns = <<>>
    /\ app_state = "off"
    /\ req = [r \in Requests |-> IdleRequest]
    /\ health = IdleHealth

InitCors ==
    /\ cors_in \in CorsInputs
    /\ cors_out = NotRun
    /\ ServerOff

NextCors == Validate

SpecCors == InitCors /\ [][NextCors]_vars

(***************************************************************************)
(* The process from the import of app.core.config on: SpecSettings.        *)
(***************************************************************************)
CorsIdle ==
    /\ cors_in = PyOther("NoneType")
    /\ cors_out = NotRun

InitSettings ==
    /\ CorsIdle
    /\ environ \in Envs({"DATABASE_URL", "SECRET_KEY"}, {<<"x">>})
    /\ cache = <<>>
    /\ constructed = <<>>
    /\ returns = <<>>
    /\ app_state = "importing"
    /\ req = [r \in Requests |-> IdleRequest]
    /\ health = IdleHealth
    /\ framework \in FrameworkReleases

NextSettings ==
    \/ get_settings
    \/ \E v \in Versions : SetEnv("VERSION", v)
    \/ SetEnv("DATABASE_URL", <<"x">>)
    \/ StartupOk
    \/ StartupFail
    \/ \E h \in Hosts : HealthRequest(h)
    \/ HealthRespond

SpecSettings == InitSettings /\ [][NextSettings]_vars

(***************************************************************************)
(* The server after a successful import, all requests concurrent: Spec.    *)
(***************************************************************************)
Imported(env) ==
    LET res == lru_cache_call(<<>>, env)
    IN  /\ ~res.ret.raised
        /\ environ = env
        /\ cache = res.cache
        /\ constructed = res.made
        /\ returns = <<res.ret>>

\* the process when app.core.config has been imported in environment e
ServerInit(envs, releases) ==
    /\ CorsIdle
    /\ \E e \in envs : Imported(Merge(RequiredEnv, e))
    /\ app_state = "starting"
    /\ req = [r \in Requests |-> IdleRequest]
    /\ health = IdleHealth
    /\ framework \in releases

KeyEnvs(keys) == {[n \in {"GEMINI_API_KEY"} |-> k] : k \in keys}

Init ==
    ServerInit({Merge(e, k) : e \in Envs({"VERSION"}, {<<"2.0.0">>}),
                              k \in KeyEnvs(ApiKeys)},
               FrameworkReleases)

\* startup, the requests, the network
Serve ==
    \/ StartupOk
    \/ StartupFail
    \/ \E r \in Requests, d \in SamplePatientData, h \in BOOLEAN :
          generate_health_insights_call(r, d, h)
    \/ \E r \in Requests : ClientRefuses(r)
    \/ \E r \in Requests : UpstreamReply(r, SampleReplies)
    \/ \E r \in Requests : NetworkError(r, ConnectError)
    \/ \E r \in Requests : generate_health_insights_resume(r)
    \/ \E h \in Hosts : HealthRequest(h)
    \/ HealthRespond

Next ==
    \/ Serve
    \/ \E k \in ApiKeys : SetEnv("GEMINI_API_KEY", k)

Spec == Init /\ [][Next]_vars

\* The server in a fixed environment, with the scheduling of the event loop
\* (a handler that can run does run) and of a network that delivers the
\* outcome of every outbound call it has not chosen to leave hanging
InitFair ==
    ServerInit(KeyEnvs({<<"k1">>, <<"k1", "\n">>}), {"str-status-detail"})

FairSpec ==
    /\ InitFair
    /\ [][Serve]_vars
    /\ \A r \in Requests :
          WF_vars(\/ UpstreamReply(r, SampleReplies)
                  \/ NetworkError(r, ConnectError)
                  \/ ClientRefuses(r)
                  \/ generate_health_insights_resume(r))
    /\ WF_vars(HealthRespond)

(***************************************************************************)
(* One invocation of generate_health_insights, every upstream answer:      *)
(* SpecProxy.                                                              *)
(***************************************************************************)
InitProxy ==
    /\ CorsIdle
    /\ \E k \in Envs({"GEMINI_API_KEY"}, {<<"k1">>, <<"k1", "\n">>}) :
          Imported(Merge(RequiredEnv, k))
    /\ app_state = "running"
    /\ req = [r \in Requests |-> IdleRequest]
    /\ health = IdleHealth
    /\ framework \in FrameworkReleases

NextProxy ==
    \/ \E d \in PatientData : generate_health_insights_call(1, d, FALSE)
    \/ UpstreamReply(1, Statuses \X Bodies)
    \/ \E e \in NetworkErrors : NetworkError(1, e)
    \/ ClientRefuses(1)
    \/ generate_health_insights_resume(1)

SpecProxy == InitProxy /\ [][NextProxy]_vars


(***************************************************************************)
(* Properties of the settings loader.                                      *)
(***************************************************************************)
Validated == cors_out # NotRun

\* positions of the commas of s, and the k-th of them
CommaPositions(s) == {i \in 1..Len(s) : s[i] = ","}
KthComma(s, k) ==
    CHOOSE p \in CommaPositions(s) :
        Cardinality({q \in CommaPositions(s) : q < p}) = k - 1

\* the k-th comma-separated item of s: what lies between two commas
Item(s, k) ==
    LET n == Cardinality(CommaPositions(s)) + 1
        lo == IF k = 1 THEN 1 ELSE KthComma(s, k - 1) + 1
        hi == IF k = n THEN Len(s) ELSE KthComma(s, k) - 1
    IN  SubSeq(s, lo, hi)

\* t is item with the whitespace around it removed and nothing else changed
IsStripped(t, item) ==
    /\ t = <<>> \/ (t[1] \notin Whitespace /\ t[Len(t)] \notin Whitespace)
    /\ \E i \in 1..(Len(item) + 1), j \in 0..Len(item) :
          /\ t = SubSeq(item, i, j)
          /\ \A m \in 1..Len(item) :
                (m < i \/ m > j) => item[m] \in Whitespace

\* C5: assemble_cors_origins turns a comma-separated string into the list of
\* its items, in order, one element per item, each without the whitespace
\* around it, and returns a list unchanged.
C5_CommaSeparatedToList ==
    Validated =>
        /\ (cors_in.type = "str" /\ ~StartsWith(cors_in.chars, "[")) =>
              /\ ~cors_out.raised
              /\ cors_out.value.type = "list"
              /\ Len(cors_out.value.items)
                     = Cardinality(CommaPositions(cors_in.chars)) + 1
              /\ \A k \in 1..Len(cors_out.value.items) :
                    IsStripped(cors_out.value.items[k],
                               Item(cors_in.chars, k))
        /\ cors_in.type = "list" =>
              (~cors_out.raised /\ cors_out.value = cors_in)

\* "a,b" has gone through and come out as the list of a and b
C5_Witness ==
    /\ Validated
    /\ cors_in = PyStr(<<"a", ",", "b">>)
    /\ cors_out.value = PyList(<<<<"a">>, <<"b">>>>)

\* C8 as stated: every input that is neither a list nor a comma-separated
\* string (a string that begins with "[" is not one) is rejected with an
\* error rather than returned.
C8_OtherShapesRejected ==
    Validated =>
        (~(cors_in.type = "list"
             \/ (cors_in.type = "str" /\ ~StartsWith(cors_in.chars, "[")))
            => cors_out.raised)

\* C8 amended: exactly the inputs that are neither a str nor a list are
\* rejected, with a ValueError carrying the input; a str that begins with "["
\* is not rejected but returned unchanged, as a str.
C8_NonStrNonListRejected ==
    Validated =>
        /\ cors_out.raised = (cors_in.type \notin {"str", "list"})
        /\ cors_out.raised => cors_out.value = cors_in
        /\ (cors_in.type = "str" /\ StartsWith(cors_in.chars, "[")) =>
              cors_out.value = cors_in

\* an int has been rejected
C8_Witness ==
    /\ Validated
    /\ cors_in = PyOther("int")
    /\ cors_out.raised


\* C6: the Settings object is constructed at most once; every get_settings()
\* call that returns, returns that one object, whatever the environment has
\* become since; the cache and what GET /health reports stay that object.
C6_SettingsConstructedOnce ==
    /\ Len(constructed) <= 1
    /\ \A i \in 1..Len(returns) :
          ~returns[i].raised =>
              (constructed # <<>> /\ returns[i].value = constructed[1])
    /\ cache \in {<<>>, constructed}
    /\ (cache = <<>>) = (constructed = <<>>)
    /\ health.response.status_code = 200 =>
          health.response.body.version = constructed[1].VERSION

\* a later call has returned the first object although the environment now
\* gives another one
C6_Witness ==
    /\ Len(returns) >= 2
    /\ ~returns[Len(returns)].raised
    /\ returns[Len(returns)].value = constructed[1]
    /\ SettingsNew(environ).value # constructed[1]

(***************************************************************************)
(* Properties of generate_health_insights.                                 *)
(***************************************************************************)
Done(r) == req[r].pc = "done"
Response(r) == req[r].responses[1]
UpstreamAnswered(r) == Done(r) /\ req[r].outcome.kind = "response"

\* C1 as stated: a non-200 upstream status S is answered with status S and
\* the fixed detail "Failed to generate insights".
C1_UpstreamStatusPropagated ==
    \A r \in Requests :
        (UpstreamAnswered(r) /\ req[r].outcome.status # 200) =>
            req[r].responses
                = <<ErrorResponse(req[r].outcome.status, FailedDetail)>>

\* C2 as stated: whenever the upstream answers 200, the caller gets a
\* successful response carrying exactly the upstream JSON body.
C2_Upstream200Relayed ==
    \A r \in Requests :
        (UpstreamAnswered(r) /\ req[r].outcome.status = 200) =>
            /\ Len(req[r].responses) = 1
            /\ Response(r).status_code = 200
            /\ Response(r).kind = "json"
            /\ JsonLoads(req[r].outcome.body).ok
            /\ JsonLoads(Response(r).body) = JsonLoads(req[r].outcome.body)

\* C2 amended: whenever the upstream answers 200 with a body that parses as
\* JSON, the caller gets one 200 response whose JSON value is exactly the
\* value of the upstream body; a 200 answer whose body is not JSON is
\* answered with HTTP 500.
C2_Upstream200JsonRelayed ==
    \A r \in Requests :
        (UpstreamAnswered(r) /\ req[r].outcome.status = 200) =>
            /\ Len(req[r].responses) = 1
            /\ IF JsonLoads(req[r].outcome.body).ok
               THEN /\ Response(r).status_code = 200
                    /\ Response(r).kind = "json"
                    /\ JsonLoads(Response(r).body)
                           = JsonLoads(req[r].outcome.body)
               ELSE /\ Response(r).status_code = 500
                    /\ Response(r).kind = "detail"

\* an upstream object with a member has been relayed
C2_Witness ==
    \E r \in Requests :
        /\ UpstreamAnswered(r)
        /\ req[r].outcome.status = 200
        /\ req[r].outcome.body = <<"{", "k:", "1", "}">>
        /\ req[r].data = JObj(<<<<"k", JNum>>>>)
        /\ Response(r) = JSONResponse(200, JObj(<<<<"k", JNum>>>>))

\* C3: when the outbound call raises instead of returning a response, the
\* caller gets exactly one response: HTTP 500 whose detail is the text of the
\* exception.
C3_NetworkErrorIs500 ==
    \A r \in Requests :
        /\ (Done(r) /\ req[r].outcome.kind = "exception") =>
              req[r].responses
                  = <<ErrorResponse(500, req[r].outcome.exc.message)>>
        /\ req[r].pc = "replied" => ENABLED generate_health_insights_resume(r)

\* a failed connection has been answered with 500 and the error text
C3_Witness ==
    \E r \in Requests :
        /\ Done(r)
        /\ req[r].outcome = Raised(ConnectError)
        /\ Response(r) = ErrorResponse(500, ConnectError.message)

\* what the upstream service did for r: nothing if the request never left
UpstreamBehaviour(r) ==
    IF req[r].outcome.exc.type = "LocalProtocolError"
    THEN NoOutcome
    ELSE req[r].outcome

\* C7 as stated: two invocations with the same request body and the same
\* upstream behaviour get the same response, whatever the API key of each.
C7_ResponseIndependentOfKey ==
    \A r1, r2 \in Requests :
        (/\ Done(r1) /\ Done(r2)
         /\ req[r1].data = req[r2].data
         /\ UpstreamBehaviour(r1) = UpstreamBehaviour(r2))
            => req[r1].responses = req[r2].responses

\* C9: an invocation issues exactly one outbound POST, when it is invoked,
\* and none later; it answers the caller at most once, and exactly once when
\* it has run to its end.
C9_OnePostOneResponse ==
    \A r \in Requests :
        /\ Len(req[r].posts) = (IF req[r].pc = "idle" THEN 0 ELSE 1)
        /\ Len(req[r].responses) = (IF Done(r) THEN 1 ELSE 0)

\* an invocation whose upstream answered 404 has ended with one POST
C9_Witness ==
    \E r \in Requests :
        /\ Done(r)
        /\ req[r].outcome.status = 404
        /\ Len(req[r].posts) = 1
        /\ Len(req[r].responses) = 1

HostAllowed(host) ==
    \E i \in 1..Len(settings.ALLOWED_HOSTS) : settings.ALLOWED_HOSTS[i] = host

C10_RequestsIndependent ==
    /\ [][\A r \in Requests :
             (req[r].pc = "awaiting" /\ req[r].hangs)
                 => (req'[r] = req[r] /\ req[r].responses = <<>>)]_vars
    /\ \A r \in Requests :
          (req[r].pc = "awaiting" /\ ~req[r].hangs)
              ~> (Done(r)
                     /\ req[r].responses = <<HandlerResponse(req[r].outcome)>>)
    /\ (health.pc = "pending") ~> (health.pc = "done")

\* one request hangs, another has been answered, and so has GET /health
C10_Witness ==
    /\ \E r1, r2 \in Requests :
          /\ req[r1].pc = "awaiting" /\ req[r1].hangs
          /\ Done(r2) /\ Len(req[r2].responses) = 1
    /\ health.pc = "done"

=============================================================================
